---- MODULE Spec2Model ----
(***************************************************************************)
(* Session transport of the NocoDB MCP server: the GET /sse and            *)
(* POST /messages handlers of startHttpServer (src/src/server.ts), the     *)
(* registry of SSE transports they share, the keep-alive interval of each  *)
(* session and the 'close' handling of each SSE response.                  *)
(*                                                                         *)
(* The process is a single-threaded event loop: one action is one          *)
(* callback run to its next await (or to its end).                         *)
(***************************************************************************)
EXTENDS Integers, Sequences, FiniteSets, TLC

\* ---- bounds ------------------------------------------------------------
MaxConn == 2        \* GET /sse requests the process ever receives
MaxFrames == 2      \* keep-alive and result frames written in all
MaxPending == 1     \* tool invocations waiting on the backend at a time
MaxRecords == 2     \* records in the `data` argument of a tool call

Conn == 1..MaxConn

\* ---- values ------------------------------------------------------------
\* The session ids the SDK can hand out (transport.sessionId, a UUID).
Ids == { ToString(i) : i \in 1..MaxConn }

\* Property names every plain object `{}` inherits from Object.prototype.
ProtoKeys == { "constructor" }

\* `req.query.sessionId` of a request without the parameter is undefined,
\* which indexes the dictionary as the key "undefined".
AbsentKey == "undefined"

\* The values the sessionId query parameter of a POST /messages can take.
QueryValues == Ids \cup ProtoKeys \cup {AbsentKey}

NoSessionId == ""

Frames == { "endpoint", "keep-alive", "message" }

VARIABLES
    transports,     \* the dictionary `transports`: own keys -> connection
    phase,          \* position of each GET /sse handler
    sid,            \* transport.sessionId of each connection
    timer,          \* keepAliveInterval of each connection is scheduled
    closed,         \* the 'close' event of each SSE response was emitted
    writableEnded,  \* res.writableEnded of each SSE response
    sseResponse,    \* the transport of each connection is started
    stream,         \* frames handed to res.write of each SSE response
    pending,        \* invocations of each session waiting on the backend
    postRes,        \* the response of the POST /messages being answered
    uncaught,       \* an exception escaped to process scope
    writeFailed,    \* connections whose socket failed a write
    invocation,     \* the tool call being handled
    step,           \* the step of its plan the handler is awaiting
    http,           \* the requests it has sent to the NocoDB backend
    tableId,        \* the table id its last name lookup resolved
    reply,          \* what the tool call handed back to the protocol
    responseData,   \* response.data of the last request it was answered
    base            \* titles of the tables the NocoDB base holds

vars == << transports, phase, sid, timer, closed, writableEnded,
           sseResponse, stream, pending, postRes, uncaught, writeFailed,
           invocation, step, http, tableId, reply, responseData, base >>

serverVars == << transports, phase, sid, timer, closed, writableEnded,
                 sseResponse, stream, pending, postRes, uncaught,
                 writeFailed >>

toolVars ==
    << invocation, step, http, tableId, reply, responseData, base >>

\* ---- values of a tool call ----------------------------------------------
\* An argument the caller left out.
Undefined == "undefined"

NoTable == ""

NoCall == [ variant |-> "none", name |-> "", args |-> << >> ]

\* The `input` member of a returned object, by the parameters it can
\* hold; a member that is undefined is left out of the JSON text.
NoInput ==
    [ tableName |-> Undefined, filters |-> << >>, limit |-> << >>,
      offset |-> << >>, sort |-> << >>, fields |-> << >>, rowId |-> << >>,
      data |-> [ isArray |-> FALSE, items |-> << >> ] ]

\* The object a tool function returned, as its JSON text shows it.
NoPayload ==
    [ hasInput |-> FALSE, input |-> NoInput, shape |-> "none",
      output |-> "none" ]

NoReply ==
    [ kind |-> "none", isError |-> FALSE, code |-> "none",
      text |-> [ prefix |-> "", about |-> "", subject |-> "",
                 wrapper |-> "" ],
      names |-> {}, payload |-> NoPayload ]

NoResponse ==
    [ kind |-> "none", key |-> NoSessionId, found |-> FALSE, status |-> 0,
      delegated |-> FALSE, threw |-> FALSE, conn |-> {}, phase |-> "none",
      sends |-> 0, ends |-> 0, body |-> "none" ]

Init ==
    /\ transports = << >>
    /\ phase = [c \in Conn |-> "idle"]
    /\ sid = [c \in Conn |-> NoSessionId]
    /\ timer = [c \in Conn |-> FALSE]
    /\ closed = [c \in Conn |-> FALSE]
    /\ writableEnded = [c \in Conn |-> FALSE]
    /\ sseResponse = [c \in Conn |-> FALSE]
    /\ stream = [c \in Conn |-> << >>]
    /\ pending = [c \in Conn |-> 0]
    /\ postRes = NoResponse
    /\ uncaught = FALSE
    /\ writeFailed = {}
    /\ invocation = NoCall
    /\ step = 0
    /\ http = << >>
    /\ tableId = NoTable
    /\ reply = NoReply
    /\ responseData = "none"
    /\ base = {}

\* ---- the dictionary `transports` (a plain object) ----------------------
Store_later(reg, k, c) == reg

\* transports[sessionId] = transport
Store(reg, k, c) ==
    [x \in (DOMAIN reg) \cup {k} |-> IF x = k THEN c ELSE reg[x]]

\* delete transports[sessionId]  (deleting a missing key is a no-op)
Delete(reg, k) ==
    [x \in (DOMAIN reg) \ {k} |-> reg[x]]

\* transports[sessionId]: an own key yields its transport, a name of
\* Object.prototype yields the inherited (truthy) member, anything else
\* yields undefined.
Lookup(reg, k) ==
    IF k \in DOMAIN reg THEN "own"
    ELSE IF k \in ProtoKeys THEN "inherited"
    ELSE "undefined"

\* ---- session ids -------------------------------------------------------
Issued == { sid[c] : c \in Conn } \ {NoSessionId}

\* Ids are opaque and only compared for equality, so of the values a
\* generator may return the first in the enumeration of Ids stands for all.
FirstOf(S) ==
    { ToString(i) : i \in { j \in 1..MaxConn :
        /\ ToString(j) \in S
        /\ \A h \in 1..(j - 1) : ToString(h) \notin S } }

randomUUID_reuse(issuedIds) == FirstOf(Ids)

randomUUID_recycle(issuedIds) ==
    FirstOf(Ids \ { sid[c] : c \in { d \in Conn : ~closed[d] } })

\* transport.sessionId is a random UUID: a value no transport of this
\* process was given before.
randomUUID(issuedIds) == FirstOf(Ids \ issuedIds)

\* ---- bounded counters --------------------------------------------------
\* keep-alive and result frames written so far, on all streams
FramesWritten ==
    Cardinality({ p \in Conn \X (1..(MaxFrames + 1)) :
                    /\ p[2] \in DOMAIN stream[p[1]]
                    /\ stream[p[1]][p[2]] # "endpoint" })

\* tool invocations waiting on the backend, of all sessions
PendingTotal ==
    Cardinality({ p \in Conn \X (1..MaxPending) : p[2] <= pending[p[1]] })

\* ---- the SSE response object -------------------------------------------
resWrite_prepend(st, c, frame) ==
    IF writableEnded[c] THEN st ELSE [st EXCEPT ![c] = << frame >> \o @]

\* res.write(frame): the frame is handed to the response unless the
\* response was ended.
resWrite(st, c, frame) ==
    IF writableEnded[c] THEN st ELSE [st EXCEPT ![c] = Append(@, frame)]

\* A write after end() on a response that is not destroyed emits an
\* 'error' event; the response has no 'error' listener.
resWriteRaises(c) == writableEnded[c] /\ ~closed[c]

\* ---- GET /sse ----------------------------------------------------------
\* The handler up to `await mcpServer.connect(transport)`.  connect() runs
\* the transport's start() at once: when it succeeds the endpoint frame
\* naming the session id is written and the transport is started; `ok`
\* is whether it does.
SseOpen(c, id, ok) ==
    /\ ~uncaught
    /\ postRes.kind = "none"
    /\ phase[c] = "idle"
    /\ \A d \in Conn : d < c => phase[d] # "idle"
    /\ id \in randomUUID(Issued)
    /\ sid' = [sid EXCEPT ![c] = id]
    /\ transports' = Store(transports, id, c)
    /\ timer' = [timer EXCEPT ![c] = TRUE]
    /\ IF ok
       THEN /\ phase' = [phase EXCEPT ![c] = "connecting"]
            /\ sseResponse' = [sseResponse EXCEPT ![c] = TRUE]
            /\ stream' = resWrite(stream, c, "endpoint")
       ELSE /\ phase' = [phase EXCEPT ![c] = "rejecting"]
            /\ UNCHANGED << sseResponse, stream >>
    /\ UNCHANGED << closed, writableEnded, pending, postRes, uncaught >>
    /\ UNCHANGED << writeFailed, toolVars >>

\* The continuation of the try block after connect() resolved.
ConnectResolved(c) ==
    /\ ~uncaught
    /\ postRes.kind = "none"
    /\ phase[c] = "connecting"
    /\ phase' = [phase EXCEPT ![c] = "connected"]
    /\ UNCHANGED << transports, sid, timer, closed, writableEnded,
                    sseResponse, stream, pending, postRes,
                    uncaught >>
    /\ UNCHANGED << writeFailed, toolVars >>

CatchClearInterval_all(tm, c) == [d \in Conn |-> FALSE]

\* clearInterval(keepAliveInterval) of the catch block
CatchClearInterval(tm, c) == [tm EXCEPT ![c] = FALSE]

\* The catch block after connect() rejected.
ConnectRejected(c) ==
    /\ ~uncaught
    /\ postRes.kind = "none"
    /\ phase[c] = "rejecting"
    /\ phase' = [phase EXCEPT ![c] = "failed"]
    /\ timer' = CatchClearInterval(timer, c)
    /\ writableEnded' = [writableEnded EXCEPT ![c] = TRUE]
    /\ UNCHANGED << transports, sid, closed, sseResponse, stream,
                    pending, postRes, uncaught >>
    /\ UNCHANGED << writeFailed, toolVars >>

\* ---- keep-alive --------------------------------------------------------
\* One run of the setInterval callback.
KeepAliveTick(c) ==
    /\ ~uncaught
    /\ postRes.kind = "none"
    /\ timer[c]
    /\ IF ~writableEnded[c]
       THEN /\ FramesWritten < MaxFrames
            /\ stream' = resWrite(stream, c, "keep-alive")
            /\ timer' = timer
       ELSE /\ timer' = [timer EXCEPT ![c] = FALSE]
            /\ stream' = stream
    /\ UNCHANGED << transports, phase, sid, closed, writableEnded,
                    sseResponse, pending, postRes, uncaught >>
    /\ UNCHANGED << writeFailed, toolVars >>

\* ---- res.on("close") ---------------------------------------------------
CloseClearInterval_skip(tm, c) == tm

\* clearInterval(keepAliveInterval) of the close handler
CloseClearInterval(tm, c) == [tm EXCEPT ![c] = FALSE]

CloseDelete_skip(reg, k) == reg

CloseDelete_all(reg, k) == << >>

\* delete transports[sessionId] of the close handler
CloseDelete(reg, k) == Delete(reg, k)

\* The close handler of connection c, as a function of the registry and
\* the timers.
CloseHandler(c, reg, tm) ==
    [ transports |-> CloseDelete(reg, sid[c]),
      timer |-> CloseClearInterval(tm, c) ]

\* What makes the SSE response of connection c emit 'close': the peer
\* disconnects, a write that was handed to the socket fails, or the
\* response the server ended has been flushed.
CloseCauses(c) ==
    { "peer-disconnect" }
      \cup (IF stream[c] # << >> /\ ~writableEnded[c]
            THEN { "write-failure" } ELSE {})
      \cup (IF writableEnded[c] THEN { "server-end" } ELSE {})

\* The 'close' event of the SSE response.  The handler does not see the
\* cause.  The transport's own listener forgets the response.
OnClose(c, cause) ==
    /\ ~uncaught
    /\ postRes.kind = "none"
    /\ phase[c] # "idle"
    /\ ~closed[c]
    /\ cause \in CloseCauses(c)
    /\ closed' = [closed EXCEPT ![c] = TRUE]
    /\ transports' = CloseHandler(c, transports, timer).transports
    /\ timer' = CloseHandler(c, transports, timer).timer
    /\ sseResponse' = [sseResponse EXCEPT ![c] = FALSE]
    /\ UNCHANGED << phase, sid, writableEnded, stream, pending,
                    postRes, uncaught >>
    /\ UNCHANGED << writeFailed, toolVars >>

\* ---- POST /messages ----------------------------------------------------
\* What transport.handlePostMessage(req, res) can do for connection c: a
\* transport that is not started answers 500 itself and throws; a started
\* one accepts the message (202), refuses it (400), or throws before or
\* after the response headers were sent.
HandlePostOutcomes(c) ==
    IF ~sseResponse[c]
    THEN { "not-established" }
    ELSE { "accepted", "invalid", "throw-before-headers",
           "throw-after-headers" }

HandlePostResponse_sync(outcome) ==
    [ status |-> IF outcome = "accepted" THEN 200 ELSE 500,
      sends |-> 1, ends |-> 1, threw |-> outcome # "accepted",
      body |-> IF outcome = "accepted" THEN "result" ELSE "error" ]

\* The POST response as handlePostMessage leaves it.  An accepted message
\* is acknowledged before its handler has run: the body is the
\* acknowledgement, never the result.
HandlePostResponse(outcome) ==
    CASE outcome = "not-established" ->
            [status |-> 500, sends |-> 1, ends |-> 1, threw |-> TRUE,
             body |-> "error"]
      [] outcome = "accepted" ->
            [status |-> 202, sends |-> 1, ends |-> 1, threw |-> FALSE,
             body |-> "Accepted"]
      [] outcome = "invalid" ->
            [status |-> 400, sends |-> 1, ends |-> 1, threw |-> FALSE,
             body |-> "error"]
      [] outcome = "throw-before-headers" ->
            [status |-> 200, sends |-> 0, ends |-> 0, threw |-> TRUE,
             body |-> "none"]
      [] outcome = "throw-after-headers" ->
            [status |-> 200, sends |-> 1, ends |-> 0, threw |-> TRUE,
             body |-> "none"]

PostCatch_always500(r) ==
    IF ~r.threw THEN r
    ELSE [r EXCEPT !.status = 500, !.sends = @ + 1, !.ends = @ + 1,
                   !.body = "Error processing message"]

\* The catch block of the handler: 500 when no headers were sent, end()
\* when they were and the response is still open, nothing otherwise.
PostCatch(r) ==
    IF ~r.threw THEN r
    ELSE IF r.sends = 0
         THEN [r EXCEPT !.status = 500, !.sends = 1, !.ends = 1,
                        !.body = "Error processing message"]
         ELSE IF r.ends = 0
              THEN [r EXCEPT !.ends = 1]
              ELSE r

PostNoTransport_clear(k) ==
    /\ ~uncaught
    /\ postRes.kind = "none"
    /\ Lookup(transports, k) = "undefined"
    /\ postRes' = [ kind |-> "resp", key |-> k, found |-> FALSE,
                    status |-> 400, delegated |-> FALSE, threw |-> FALSE,
                    conn |-> {}, phase |-> "none", sends |-> 1, ends |-> 1,
                    body |-> "No transport found" ]
    /\ timer' = [c \in Conn |-> FALSE]
    /\ UNCHANGED << transports, phase, sid, closed, writableEnded,
                    sseResponse, stream, pending, uncaught >>
    /\ UNCHANGED << writeFailed, toolVars >>

\* The else branch: no transport under the key.
PostNoTransport(k) ==
    /\ ~uncaught
    /\ postRes.kind = "none"
    /\ Lookup(transports, k) = "undefined"
    /\ postRes' = [ kind |-> "resp", key |-> k, found |-> FALSE,
                    status |-> 400, delegated |-> FALSE, threw |-> FALSE,
                    conn |-> {}, phase |-> "none", sends |-> 1, ends |-> 1,
                    body |-> "No transport found" ]
    /\ UNCHANGED << transports, phase, sid, timer, closed, writableEnded,
                    sseResponse, stream, pending, uncaught >>
    /\ UNCHANGED << writeFailed, toolVars >>

\* The key names a member of Object.prototype: `transport` is truthy, the
\* call of its handlePostMessage is a TypeError, the catch block answers.
PostInherited(k) ==
    /\ ~uncaught
    /\ postRes.kind = "none"
    /\ Lookup(transports, k) = "inherited"
    /\ LET r == PostCatch([status |-> 200, sends |-> 0, ends |-> 0,
                           threw |-> TRUE, body |-> "none"])
       IN postRes' = [ kind |-> "resp", key |-> k, found |-> FALSE,
                       status |-> r.status, delegated |-> FALSE,
                       threw |-> TRUE, conn |-> {}, phase |-> "none",
                       sends |-> r.sends, ends |-> r.ends,
                       body |-> r.body ]
    /\ UNCHANGED << transports, phase, sid, timer, closed, writableEnded,
                    sseResponse, stream, pending, uncaught >>
    /\ UNCHANGED << writeFailed, toolVars >>

\* The key is a registered session id: the request is delegated to the
\* transport; an accepted message is a tool invocation, which goes to the
\* backend.
PostDelegate(k, outcome) ==
    /\ ~uncaught
    /\ postRes.kind = "none"
    /\ Lookup(transports, k) = "own"
    /\ LET c == transports[k]
           r == PostCatch(HandlePostResponse(outcome))
       IN /\ outcome \in HandlePostOutcomes(c)
          /\ outcome = "accepted" => PendingTotal < MaxPending
          /\ pending' = IF outcome = "accepted"
                        THEN [pending EXCEPT ![c] = @ + 1]
                        ELSE pending
          /\ postRes' = [ kind |-> "resp", key |-> k, found |-> TRUE,
                          status |-> r.status, delegated |-> TRUE,
                          threw |-> r.threw, conn |-> {c},
                          phase |-> phase[c],
                          sends |-> r.sends, ends |-> r.ends,
                       body |-> r.body ]
    /\ UNCHANGED << transports, phase, sid, timer, closed, writableEnded,
                    sseResponse, stream, uncaught >>
    /\ UNCHANGED << writeFailed, toolVars >>

PostMessages(k, outcome) ==
    \/ PostNoTransport(k)
    \/ PostInherited(k)
    \/ PostDelegate(k, outcome)

\* The response of the POST is on the wire; the next callback runs after.
ClientReceive ==
    /\ ~uncaught
    /\ postRes.kind = "resp"
    /\ postRes' = NoResponse
    /\ UNCHANGED << transports, phase, sid, timer, closed, writableEnded,
                    sseResponse, stream, pending, uncaught >>
    /\ UNCHANGED << writeFailed, toolVars >>

\* ---- result of a tool invocation ---------------------------------------
EmitOnSession_throw(c, frame) ==
    /\ stream' = IF sseResponse[c] THEN resWrite(stream, c, frame)
                 ELSE stream
    /\ uncaught' = (uncaught \/ ~sseResponse[c])

\* The frame is written to the session's stream if the session is still
\* open; otherwise it is dropped and nothing is raised.
EmitOnSession(c, frame) ==
    IF sseResponse[c]
    THEN /\ stream' = resWrite(stream, c, frame)
         /\ uncaught' = (uncaught \/ resWriteRaises(c))
    ELSE UNCHANGED << stream, uncaught >>

\* The backend call of an invocation of session c returns and its result
\* is emitted.
BackendReturn(c) ==
    /\ ~uncaught
    /\ postRes.kind = "none"
    /\ pending[c] > 0
    /\ sseResponse[c] => FramesWritten < MaxFrames
    /\ pending' = [pending EXCEPT ![c] = @ - 1]
    /\ EmitOnSession(c, "message")
    /\ UNCHANGED << transports, phase, sid, timer, closed, writableEnded,
                    sseResponse, postRes >>
    /\ UNCHANGED << writeFailed, toolVars >>

\* The result reaches a session that is still open.
ResultDelivered(c) == sseResponse[c] /\ BackendReturn(c)

\* The result comes back after the session was closed.
ResultDiscarded(c) == ~sseResponse[c] /\ BackendReturn(c)

\* ---- specification -----------------------------------------------------
Next ==
    \/ \E c \in Conn, id \in Ids, ok \in BOOLEAN : SseOpen(c, id, ok)
    \/ \E c \in Conn : ConnectResolved(c)
    \/ \E c \in Conn : ConnectRejected(c)
    \/ \E c \in Conn : KeepAliveTick(c)
    \/ \E c \in Conn,
          cause \in { "peer-disconnect", "write-failure", "server-end" } :
          OnClose(c, cause)
    \/ \E k \in QueryValues,
          outcome \in { "not-established", "accepted", "invalid",
                        "throw-before-headers", "throw-after-headers" } :
          PostMessages(k, outcome)
    \/ ClientReceive
    \/ \E c \in Conn : ResultDelivered(c)
    \/ \E c \in Conn : ResultDiscarded(c)

Spec == Init /\ [][Next]_vars

\* ---- a write that fails -------------------------------------------------
\* A frame handed to res.write of an open response could not be sent: the
\* socket reports the error and is destroyed, which queues the 'close'
\* event of the response.
WriteFails(c) ==
    /\ ~uncaught
    /\ postRes.kind = "none"
    /\ phase[c] # "idle"
    /\ ~closed[c]
    /\ ~writableEnded[c]
    /\ stream[c] # << >>
    /\ stream[c][Len(stream[c])] \in { "keep-alive", "message" }
    /\ c \notin writeFailed
    /\ writeFailed' = writeFailed \cup {c}
    /\ UNCHANGED << transports, phase, sid, timer, closed, writableEnded,
                    sseResponse, stream, pending, postRes, uncaught >>
    /\ UNCHANGED toolVars

\* The 'close' event that follows a failed write.
CloseAfterWriteFailure(c) ==
    c \in writeFailed /\ \E cause \in CloseCauses(c) : OnClose(c, cause)

NextWithWriteFailures ==
    \/ Next
    \/ \E c \in Conn : WriteFails(c)

\* The event loop runs every callback that is queued: the response of a
\* POST is flushed, and the 'close' event of a destroyed socket is emitted
\* even if requests keep arriving.
SpecWithWriteFailures ==
    /\ Init
    /\ [][NextWithWriteFailures]_vars
    /\ WF_vars(ClientReceive)
    /\ \A c \in Conn : SF_vars(CloseAfterWriteFailure(c))

\* ---- the NocoDB backend -------------------------------------------------
\* Titles of the tables a base can hold, and what a caller may name.
TableTitles == { "Customers", "orders" }

CallerTableNames == TableTitles \cup { "customers" }

\* The lists the backend can return for
\* GET /api/v2/meta/bases/{base}/tables.
TableLists == SUBSET TableTitles

\* The bodies the backend can answer a data request with.
ResponseBodies == { "rows-1", "rows-2" }

\* The id of the table with a given title.
IdOfTable(title) == << "id", title >>

FindTable_anyCase(list, tableName) ==
    { t \in list : t = tableName \/ (t = "Customers" /\ tableName = "customers") }

\* tables.find(t => t.title === tableName): strict equality of strings.
FindTable(list, tableName) == { t \in list : t = tableName }

\* A request as the HTTP client sends it: `query` is the list of its
\* query parameters in their order, `body` what it carries.
NoQuery == << >>

NoBody == [ data |-> [ isArray |-> FALSE, items |-> << >> ],
            columns |-> << >> ]

Request(method, resource, table, query, body) ==
    [ method |-> method, resource |-> resource, table |-> table,
      query |-> query, body |-> body ]

\* ---- tool registries ----------------------------------------------------
\* The name of each tool descriptor of the legacy server.
GET_RECORDS_TOOL == "nocodb_get_records"
LIST_TABLES_TOOL == "nocodb_list_tables"
POST_RECORDS_TOOL == "nocodb_post_records"
PATCH_RECORDS_TOOL == "nocodb_patch_records"
DELETE_RECORDS_TOOL == "nocodb_delete_records"
GET_TABLE_METADATA_TOOL == "nocodb_get_table_metadata"
ADD_COLUMN_TOOL == "nocodb_add_column"
REMOVE_COLUMN_TOOL == "nocodb_remove_column"
CREATE_TABLE_TOOL == "nocodb_create_table"

ALL_TOOLS_short ==
    << GET_RECORDS_TOOL, LIST_TABLES_TOOL, POST_RECORDS_TOOL,
       PATCH_RECORDS_TOOL, DELETE_RECORDS_TOOL, GET_TABLE_METADATA_TOOL,
       ADD_COLUMN_TOOL, REMOVE_COLUMN_TOOL >>

\* The list the tool-list handler returns.
ALL_TOOLS ==
    << GET_RECORDS_TOOL, LIST_TABLES_TOOL, POST_RECORDS_TOOL,
       PATCH_RECORDS_TOOL, DELETE_RECORDS_TOOL, GET_TABLE_METADATA_TOOL,
       ADD_COLUMN_TOOL, REMOVE_COLUMN_TOOL, CREATE_TABLE_TOOL >>

\* The names the switch of the tool-call handler has a case for.
SwitchCases ==
    { GET_RECORDS_TOOL, LIST_TABLES_TOOL, POST_RECORDS_TOOL,
      PATCH_RECORDS_TOOL, DELETE_RECORDS_TOOL, GET_TABLE_METADATA_TOOL,
      ADD_COLUMN_TOOL, REMOVE_COLUMN_TOOL, CREATE_TABLE_TOOL }

\* The names registerNocoDbTools registers with server.tool.
RegisteredTools ==
    { "nocodb-get-records", "nocodb-post-records", "nocodb-patch-records",
      "nocodb-delete-records", "nocodb-get-record", "nocodb-count-records",
      "nocodb-get-linked-records", "nocodb-link-records",
      "nocodb-unlink-records", "nocodb-upload-attachment",
      "nocodb-get-list-tables", "nocodb-get-table-metadata",
      "nocodb-alter-table-add-column", "nocodb-alter-table-remove-column",
      "nocodb-create-table" }

\* Names no registry holds.
UnregisteredNames == { "nocodb_drop_table" }

Range(seq) == { seq[i] : i \in DOMAIN seq }

\* ---- arguments of a call ------------------------------------------------
SeqsUpTo(S, n) == UNION { [1..k -> S] : k \in 0..n }

\* An optional value: None when the caller left it out, Some(v) else.
None == << >>

Some(v) == << v >>

\* One element of `data`: whether it is a (non-null) object, whether it
\* has the key 'Id', whether that Id is a number, and the values of its
\* keys 'id' and 'name'.
DataElements ==
    { [ isObject |-> TRUE, hasId |-> TRUE, idIsNumber |-> TRUE,
        id |-> None, name |-> None ],
      [ isObject |-> TRUE, hasId |-> TRUE, idIsNumber |-> FALSE,
        id |-> None, name |-> None ],
      [ isObject |-> TRUE, hasId |-> FALSE, idIsNumber |-> FALSE,
        id |-> None, name |-> None ],
      [ isObject |-> FALSE, hasId |-> FALSE, idIsNumber |-> FALSE,
        id |-> None, name |-> None ] }

\* The ids of rows, and the values a caller may give to the keys of a
\* record.
RowIds == { 1, 2 }

FieldValues == { 1, 7 }

\* An object without the key 'Id', by the values of its keys 'id' and
\* 'name', and the value null.
RecordObjects ==
    { [ isObject |-> TRUE, hasId |-> FALSE, idIsNumber |-> FALSE,
        id |-> i, name |-> n ] :
        i \in { None } \cup { Some(v) : v \in FieldValues },
        n \in { None, Some(7) } }

NullRecord ==
    [ isObject |-> FALSE, hasId |-> FALSE, idIsNumber |-> FALSE,
      id |-> None, name |-> None ]

NoData == [ isArray |-> FALSE, items |-> << >> ]

One(e) == [ isArray |-> FALSE, items |-> << e >> ]

\* A column definition of create-table, and the lists a caller may send.
Column(title, uidt) == [ title |-> title, uidt |-> uidt ]

ColumnTitles == { "Id", "ID", "Name" }

\* title.toLowerCase()
ToLowerCase(title) ==
    CASE title \in { "Id", "ID", "id" } -> "id"
      [] title \in { "Name", "name" } -> "name"

ColumnLists ==
    { q \in SeqsUpTo({ Column(t, IF t = "Name" THEN "Number" ELSE "ID") :
                         t \in ColumnTitles }, MaxRecords) : q # << >> }

\* `data` is one element or an array of at most MaxRecords elements.
DataValues ==
    { [ isArray |-> FALSE, items |-> << e >> ] : e \in DataElements }
      \cup { [ isArray |-> TRUE, items |-> q ] :
                q \in SeqsUpTo(DataElements, MaxRecords) }

DefaultArgs ==
    [ isObject |-> TRUE, tableName |-> "Customers",
      data |-> [ isArray |-> FALSE,
                 items |-> << [ isObject |-> TRUE, hasId |-> TRUE,
                                idIsNumber |-> TRUE, id |-> None,
                                name |-> None ] >> ],
      columnType |-> "Number", parentTableName |-> Undefined,
      relationType |-> Undefined, columnId |-> << "c", "1" >>,
      fileReadable |-> TRUE,
      filters |-> None, limit |-> None, offset |-> None, sort |-> None,
      fields |-> None, rowId |-> 1,
      columns |-> << [ title |-> "Name", uidt |-> "Number" ] >> ]

\* The optional parameters of get-records a caller may send.  The schema
\* of the registered tool allows any string, a positive limit and a
\* non-negative offset; the legacy handler receives whatever was sent.
QueryArgs(limits, offsets) ==
    { [ DefaultArgs EXCEPT !.filters = f, !.limit = l, !.offset = o,
                           !.sort = so, !.fields = fi ] :
        f \in { None, Some(""), Some("(a,eq,1)") },
        l \in { None } \cup { Some(v) : v \in limits },
        o \in { None } \cup { Some(v) : v \in offsets },
        so \in { None, Some("-a") },
        fi \in { None, Some("a,b") } }

WithTable(S) ==
    { [ DefaultArgs EXCEPT !.tableName = t ] : t \in S }

\* columnId as its characters; a missing or empty one is << >>.
ColumnIds == { << "c", "1" >>, << "x", "1" >>, << >> }

\* The arguments a caller can send with a call of the legacy server: the
\* handler receives them as sent.
LegacyArgs(name) ==
    { [ DefaultArgs EXCEPT !.isObject = FALSE ] }
      \cup
    (CASE name = GET_RECORDS_TOOL ->
            WithTable(CallerTableNames \cup { Undefined })
              \cup QueryArgs({ 0, 1 }, { 0, 1 })
       [] name \in { POST_RECORDS_TOOL,
                     GET_TABLE_METADATA_TOOL, ADD_COLUMN_TOOL } ->
            WithTable(CallerTableNames \cup { Undefined })
       [] name \in { PATCH_RECORDS_TOOL, DELETE_RECORDS_TOOL } ->
            { [ a EXCEPT !.data = d ] :
                a \in WithTable(CallerTableNames), d \in DataValues }
       [] name = REMOVE_COLUMN_TOOL ->
            { [ DefaultArgs EXCEPT !.columnId = i ] : i \in ColumnIds }
       [] name = CREATE_TABLE_TOOL ->
            { [ DefaultArgs EXCEPT !.columns = q ] : q \in ColumnLists }
       [] OTHER -> { DefaultArgs })

\* The arguments a callback of registerNocoDbTools can receive: values of
\* the parameter schema it was registered with.
ModularArgs(name) ==
    CASE name = "nocodb-alter-table-add-column" ->
            { [ a EXCEPT !.columnType = ct, !.parentTableName = pt,
                         !.relationType = rt ] :
                a \in WithTable(CallerTableNames),
                ct \in { "Number", "LinkToAnotherRecord" },
                pt \in CallerTableNames \cup { Undefined },
                rt \in { "hm", Undefined } }
      [] name = "nocodb-upload-attachment" ->
            { [ DefaultArgs EXCEPT !.fileReadable = b ] : b \in BOOLEAN }
      [] name = "nocodb-alter-table-remove-column" ->
            { [ DefaultArgs EXCEPT !.columnId = i ] :
                i \in ColumnIds \ { << >> } }
      [] name = "nocodb-get-list-tables" -> { DefaultArgs }
      [] name = "nocodb-create-table" ->
            { [ DefaultArgs EXCEPT !.columns = q ] : q \in ColumnLists }
      [] name = "nocodb-get-records" ->
            WithTable(CallerTableNames) \cup QueryArgs({ 1 }, { 0, 1 })
      [] name = "nocodb-post-records" ->
            { [ a EXCEPT !.data = One(e) ] :
                a \in WithTable(CallerTableNames),
                e \in RecordObjects }
      [] name = "nocodb-patch-records" ->
            { [ a EXCEPT !.data = One(e), !.rowId = r ] :
                a \in WithTable(CallerTableNames),
                e \in RecordObjects \cup { NullRecord },
                r \in RowIds }
      [] OTHER -> WithTable(CallerTableNames)

\* ---- plans: what a tool function does, step by step --------------------
\* getTableId(tableName): the list request and the search of its answer.
LookupStep(t) ==
    [ op |-> "lookup", table |-> t, method |-> "GET",
      resource |-> "meta/bases/tables", scoped |-> FALSE, ok |-> TRUE,
      why |-> "", query |-> NoQuery, body |-> NoBody ]

\* A test of the arguments (or of a local file) that throws when it fails.
CheckStep(ok, why) ==
    [ op |-> "check", table |-> NoTable, method |-> "",
      resource |-> "", scoped |-> FALSE, ok |-> ok, why |-> why,
      query |-> NoQuery, body |-> NoBody ]

\* The request of the operation itself; `scoped` when its URL holds the
\* resolved table id.
RequestStep(method, resource, scoped) ==
    [ op |-> "request", table |-> NoTable, method |-> method,
      resource |-> resource, scoped |-> scoped, ok |-> TRUE,
      why |-> "", query |-> NoQuery, body |-> NoBody ]

\* The same request with query parameters, or with a body.
WithQuery(st, query) == [ st EXCEPT !.query = query ]

WithData(st, data) == [ st EXCEPT !.body.data = data ]

WithColumns(st, columns) == [ st EXCEPT !.body.columns = columns ]

\* ---- what the tool functions compute ------------------------------------
\* `if (x)` of an optional string, of an optional number.
TruthyString(x) == x # None /\ x[1] # ""

TruthyNumber(x) == x # None /\ x[1] # 0

Param(key, value) == << key, value >>

When(cond, param) == IF cond THEN << param >> ELSE << >>

\* getRecords of nocodbApi: paramsArray, pushed to under `if (x)` and
\* joined in this order; `${limit}` is the decimal form of the number.
paramsArray(a) ==
    When(TruthyString(a.filters), Param("where", a.filters[1]))
      \o When(TruthyNumber(a.limit), Param("limit", ToString(a.limit[1])))
      \o When(TruthyNumber(a.offset),
              Param("offset", ToString(a.offset[1])))
      \o When(TruthyString(a.sort), Param("sort", a.sort[1]))
      \o When(TruthyString(a.fields), Param("fields", a.fields[1]))

\* getRecords of the legacy server: params, set under `if (x)` for the
\* strings and under `x !== undefined` for limit and offset.
params(a) ==
    When(TruthyString(a.filters), Param("where", a.filters[1]))
      \o When(a.limit # None, Param("limit", ToString(a.limit[1])))
      \o When(a.offset # None, Param("offset", ToString(a.offset[1])))
      \o When(TruthyString(a.sort), Param("sort", a.sort[1]))
      \o When(TruthyString(a.fields), Param("fields", a.fields[1]))

patchData_dataLast(data, rowId) ==
    IF data.items[1].isObject /\ data.items[1].id # None
    THEN data.items[1]
    ELSE [ isObject |-> TRUE, hasId |-> FALSE, idIsNumber |-> FALSE,
           id |-> Some(rowId),
           name |-> IF data.items[1].isObject THEN data.items[1].name
                    ELSE None ]

\* { ...data, id: rowId } of patchRecords: the keys of data, then id.  The
\* spread of null has no keys.
patchData(data, rowId) ==
    IF data.items[1].isObject
    THEN [ data.items[1] EXCEPT !.id = Some(rowId) ]
    ELSE [ isObject |-> TRUE, hasId |-> FALSE, idIsNumber |-> FALSE,
           id |-> Some(rowId), name |-> None ]

\* Array.isArray(data) ? data : [data]
recordsToUpdate(data) == [ isArray |-> TRUE, items |-> data.items ]

\* columns.some(c => c.title.toLowerCase() === 'id')
hasId(columns) ==
    \E i \in DOMAIN columns : ToLowerCase(columns[i].title) = "id"

\* columns.filter(c => c.title.toLowerCase() !== 'id')
RECURSIVE WithoutId(_)
WithoutId(columns) ==
    IF columns = << >> THEN << >>
    ELSE (IF ToLowerCase(Head(columns).title) = "id" THEN << >>
          ELSE << Head(columns) >>) \o WithoutId(Tail(columns))

\* createTable of nocodbApi: the Id column is put in front when no column
\* is titled id.
columnsData(columns) ==
    IF hasId(columns) THEN columns
    ELSE << [ title |-> "Id", uidt |-> "ID" ] >> \o columns

\* createTable of the legacy server: a column titled id is taken out when
\* there are other columns; none is added.
finalColumns(columns) ==
    IF hasId(columns) /\ Len(columns) > 1 THEN WithoutId(columns)
    ELSE columns

\* recordsToUpdate.every(r => r && typeof r === 'object' && 'Id' in r)
EveryHasId(data) ==
    \A i \in DOMAIN data.items :
        data.items[i].isObject /\ data.items[i].hasId

\* ... && typeof r.Id === 'number'
EveryHasNumericId(data) ==
    \A i \in DOMAIN data.items :
        /\ data.items[i].isObject /\ data.items[i].hasId
        /\ data.items[i].idIsNumber

\* !columnId || !columnId.startsWith('c')
ValidColumnId(columnId) == columnId # << >> /\ columnId[1] = "c"

\* The functions of the legacy server, as the switch calls them.
LegacyPlan(name, a) ==
    CASE name = GET_RECORDS_TOOL ->
            << LookupStep(a.tableName),
               WithQuery(RequestStep("GET", "records", TRUE),
                         params(a)) >>
      [] name = LIST_TABLES_TOOL ->
            << RequestStep("GET", "meta/bases/tables", FALSE) >>
      [] name = POST_RECORDS_TOOL ->
            << LookupStep(a.tableName),
               WithData(RequestStep("POST", "records", TRUE), a.data) >>
      [] name = PATCH_RECORDS_TOOL ->
            << LookupStep(a.tableName), CheckStep(EveryHasId(a.data), "invalid-params"),
               WithData(RequestStep("PATCH", "records", TRUE),
                        recordsToUpdate(a.data)) >>
      [] name = DELETE_RECORDS_TOOL ->
            << LookupStep(a.tableName),
               CheckStep(EveryHasNumericId(a.data), "invalid-params"),
               WithData(RequestStep("DELETE", "records", TRUE),
                        recordsToUpdate(a.data)) >>
      [] name = GET_TABLE_METADATA_TOOL ->
            << LookupStep(a.tableName),
               RequestStep("GET", "meta/tables", TRUE) >>
      [] name = ADD_COLUMN_TOOL ->
            << LookupStep(a.tableName),
               RequestStep("POST", "meta/tables/columns", TRUE) >>
      [] name = REMOVE_COLUMN_TOOL ->
            << CheckStep(ValidColumnId(a.columnId), "invalid-params"),
               RequestStep("DELETE", "meta/columns", FALSE) >>
      [] name = CREATE_TABLE_TOOL ->
            << WithColumns(RequestStep("POST", "meta/bases/tables", FALSE),
                           finalColumns(a.columns)) >>

\* The callbacks of registerNocoDbTools with the functions of nocodbApi
\* they call.
ModularPlan(name, a) ==
    CASE name = "nocodb-get-records" ->
            << LookupStep(a.tableName),
               WithQuery(RequestStep("GET", "records", TRUE),
                         paramsArray(a)) >>
      [] name = "nocodb-post-records" ->
            << LookupStep(a.tableName),
               WithData(RequestStep("POST", "records", TRUE), a.data) >>
      [] name = "nocodb-patch-records" ->
            << LookupStep(a.tableName),
               WithData(RequestStep("PATCH", "records", TRUE),
                        One(patchData(a.data, a.rowId))) >>
      [] name = "nocodb-delete-records" ->
            << LookupStep(a.tableName),
               WithData(RequestStep("DELETE", "records", TRUE),
                        One(patchData(One(NullRecord), a.rowId))) >>
      [] name = "nocodb-get-record" ->
            << LookupStep(a.tableName),
               RequestStep("GET", "records/id", TRUE) >>
      [] name = "nocodb-count-records" ->
            << LookupStep(a.tableName),
               RequestStep("GET", "records/count", TRUE) >>
      [] name = "nocodb-get-linked-records" ->
            << LookupStep(a.tableName),
               RequestStep("GET", "links/records", TRUE) >>
      [] name = "nocodb-link-records" ->
            << LookupStep(a.tableName),
               RequestStep("POST", "links/records", TRUE) >>
      [] name = "nocodb-unlink-records" ->
            << LookupStep(a.tableName),
               RequestStep("DELETE", "links/records", TRUE) >>
      [] name = "nocodb-upload-attachment" ->
            << CheckStep(a.fileReadable, "file-unreadable"),
               RequestStep("POST", "storage/upload", FALSE) >>
      [] name = "nocodb-get-list-tables" ->
            << RequestStep("GET", "meta/bases/tables", FALSE) >>
      [] name = "nocodb-get-table-metadata" ->
            << LookupStep(a.tableName),
               RequestStep("GET", "meta/tables", TRUE) >>
      [] name = "nocodb-alter-table-add-column" ->
            IF a.columnType = "LinkToAnotherRecord"
            THEN << CheckStep(a.parentTableName # Undefined
                                /\ a.relationType # Undefined,
                              "invalid-params"),
                    LookupStep(a.tableName),
                    LookupStep(a.parentTableName),
                    LookupStep(a.tableName),
                    RequestStep("POST", "meta/tables/columns", TRUE) >>
            ELSE << LookupStep(a.tableName),
                    RequestStep("POST", "meta/tables/columns", TRUE) >>
      [] name = "nocodb-alter-table-remove-column" ->
            << RequestStep("DELETE", "meta/columns", FALSE) >>
      [] name = "nocodb-create-table" ->
            << WithColumns(RequestStep("POST", "meta/bases/tables", FALSE),
                           columnsData(a.columns)) >>

PlanOf(call) ==
    IF call.variant = "legacy"
    THEN LegacyPlan(call.name, call.args)
    ELSE ModularPlan(call.name, call.args)

\* ---- errors and results of a tool call ---------------------------------
\* The functions of nocodbApi whose catch block throws the error it caught
\* (`throw error`); every other catch block throws a new error whose
\* message names the operation.
RethrowsCaught ==
    { "nocodb-get-records", "nocodb-post-records", "nocodb-patch-records",
      "nocodb-delete-records", "nocodb-get-record", "nocodb-count-records",
      "nocodb-get-linked-records", "nocodb-link-records",
      "nocodb-unlink-records", "nocodb-upload-attachment" }

\* What the message of the error names when step st of the call fails:
\* the check that threw it, the operation whose catch block wrapped it, or
\* nothing ("raw") when the catch block passed the caught error on.
CatchOf(call, st) ==
    IF st.op = "check" THEN "check"
    ELSE IF st.op = "lookup" THEN "getTableId"
    ELSE IF call.variant = "modular" /\ call.name \in RethrowsCaught
         THEN "raw"
    ELSE call.name

\* What a tool function throws when step st fails for the reason `why`:
\* the legacy functions throw McpError (InvalidParams from a check,
\* InternalError from a request), those of nocodbApi throw Error.
Thrown(call, st, why) ==
    [ class |-> IF call.variant = "legacy" THEN "McpError" ELSE "Error",
      code |-> IF call.variant # "legacy" THEN "none"
               ELSE IF st.op = "check" THEN "InvalidParams"
               ELSE "InternalError",
      about |-> why,
      subject |-> st.table,
      wrapper |-> CatchOf(call, st) ]

\* throw new McpError(ErrorCode.InvalidParams, "Tool arguments must be an
\* object ...")
ArgsNotObject ==
    [ class |-> "McpError", code |-> "InvalidParams",
      about |-> "invalid-params", subject |-> NoTable,
      wrapper |-> "handler" ]

\* throw new McpError(ErrorCode.MethodNotFound, `Unknown tool: ${name}`)
UnknownTool(name) ==
    [ class |-> "McpError", code |-> "MethodNotFound",
      about |-> "unknown-tool", subject |-> name,
      wrapper |-> "handler" ]

\* What the tool function returns when its request was answered with
\* `data`: the functions of the legacy server return response.data (a
\* projection of it for the table list); getRecords, postRecords and
\* patchRecords of nocodbApi return an object with `input` and `output`.
Returned(call, st, data) ==
    LET a == call.args
        raw == [ hasInput |-> FALSE, input |-> NoInput, shape |-> "raw",
                 output |-> data ]
    IN CASE call.variant = "modular" /\ call.name = "nocodb-get-records" ->
              [ raw EXCEPT !.hasInput = TRUE,
                  !.input = [ NoInput EXCEPT !.tableName = a.tableName,
                                !.filters = a.filters, !.limit = a.limit,
                                !.offset = a.offset, !.sort = a.sort,
                                !.fields = a.fields ] ]
         [] call.variant = "modular" /\ call.name = "nocodb-post-records" ->
              [ raw EXCEPT !.hasInput = TRUE,
                  !.input = [ NoInput EXCEPT !.data = a.data ] ]
         [] call.variant = "modular" /\ call.name = "nocodb-patch-records" ->
              [ raw EXCEPT !.hasInput = TRUE,
                  !.input = [ NoInput EXCEPT !.data = st.body.data ] ]
         [] call.name \in { "nocodb-get-list-tables", LIST_TABLES_TOOL } ->
              [ raw EXCEPT !.shape = "projection" ]
         [] OTHER -> raw

\* return { content: [{ type: "text", ..., text: resultText }] }
ToolResult(call, st, data) ==
    [ kind |-> "result", isError |-> FALSE, code |-> "none",
      text |-> [ prefix |-> "json", about |-> "data",
                 subject |-> st.resource, wrapper |-> "" ],
      names |-> {}, payload |-> Returned(call, st, data) ]

CallToolCatch_rethrow(e) ==
    [ kind |-> "exception", isError |-> FALSE, code |-> e.code,
      text |-> [ prefix |-> "", about |-> e.about, subject |-> e.subject,
                 wrapper |-> e.wrapper ],
      names |-> {}, payload |-> NoPayload ]

\* The catch block of the legacy tool-call handler: the error becomes a
\* payload with isError, the error code and one text content.
CallToolCatch(e) ==
    IF e.class = "McpError"
    THEN [ kind |-> "result", isError |-> TRUE, code |-> e.code,
           text |-> [ prefix |-> "MCP Error", about |-> e.about,
                      subject |-> e.subject, wrapper |-> e.wrapper ],
           names |-> {}, payload |-> NoPayload ]
    ELSE [ kind |-> "result", isError |-> TRUE, code |-> "InternalError",
           text |-> [ prefix |-> "Internal Server Error",
                      about |-> e.about, subject |-> e.subject,
                      wrapper |-> e.wrapper ],
           names |-> {}, payload |-> NoPayload ]

\* What becomes of an error a registered callback throws: a result marked
\* isError whose one text content is the message of the error.
ToolCallbackCatch(e) ==
    [ kind |-> "result", isError |-> TRUE, code |-> "none",
      text |-> [ prefix |-> "", about |-> e.about, subject |-> e.subject,
                 wrapper |-> e.wrapper ],
      names |-> {}, payload |-> NoPayload ]

Fail(call, e) ==
    IF call.variant = "legacy" THEN CallToolCatch(e)
    ELSE ToolCallbackCatch(e)

\* ---- running a tool call ------------------------------------------------
\* The first step from i on at which the function stops: a request it
\* awaits, a check that fails, or Len + 1 when it returns.
RECURSIVE NextAwait(_, _)
NextAwait(plan, i) ==
    IF i > Len(plan) THEN i
    ELSE IF plan[i].op = "check" /\ plan[i].ok THEN NextAwait(plan, i + 1)
    ELSE i

\* The function runs from step i to its next await, with `tid` the table
\* id resolved so far and `data` the answer to its last request.
Continue(call, i, tid, data) ==
    LET plan == PlanOf(call)
        j == NextAwait(plan, i)
    IN IF j > Len(plan)
       THEN /\ step' = 0
            /\ reply' = ToolResult(call, plan[Len(plan)], data)
            /\ http' = http
       ELSE IF plan[j].op = "check"
       THEN /\ step' = 0
            /\ reply' = Fail(call, Thrown(call, plan[j], plan[j].why))
            /\ http' = http
       ELSE /\ step' = j
            /\ reply' = reply
            /\ http' = Append(http,
                         Request(plan[j].method, plan[j].resource,
                                 IF plan[j].scoped THEN tid ELSE NoTable,
                                 plan[j].query, plan[j].body))

\* A tools/call request reaches its handler, which runs to its first
\* await or to its end.  The legacy handler receives any name and any
\* arguments; a callback of registerNocoDbTools runs for a registered name
\* with arguments of its schema.
CallTool(variant, name, args) ==
    /\ invocation = NoCall
    /\ reply = NoReply
    /\ LET call == [ variant |-> variant, name |-> name, args |-> args ]
       IN /\ invocation' = call
          /\ tableId' = NoTable
          /\ IF variant = "legacy"
             THEN /\ name \in SwitchCases \cup RegisteredTools
                                \cup UnregisteredNames
                  /\ args \in LegacyArgs(name)
                  /\ IF ~args.isObject
                     THEN /\ reply' = CallToolCatch(ArgsNotObject)
                          /\ UNCHANGED << step, http >>
                     ELSE IF name \notin SwitchCases
                     THEN /\ reply' = CallToolCatch(UnknownTool(name))
                          /\ UNCHANGED << step, http >>
                     ELSE Continue(call, 1, NoTable, "none")
             ELSE /\ variant = "modular"
                  /\ name \in RegisteredTools
                  /\ args \in ModularArgs(name)
                  /\ Continue(call, 1, NoTable, "none")
    /\ UNCHANGED << responseData, base, serverVars >>

\* The backend answers the request the handler awaits, with a status of
\* success (and for the table list the titles of the base) or with an
\* error; the handler runs on to its next await or to its end.
BackendResponds(outcome, data) ==
    /\ step > 0
    /\ LET st == PlanOf(invocation)[step]
       IN IF outcome = "http-error"
          THEN /\ step' = 0
               /\ responseData' = responseData
               /\ reply' = Fail(invocation,
                                Thrown(invocation, st, "backend-http"))
               /\ UNCHANGED << http, tableId >>
          ELSE IF st.op = "lookup"
          THEN IF FindTable(base, st.table) = {}
               THEN /\ step' = 0
                    /\ reply' = Fail(invocation,
                                     Thrown(invocation, st,
                                            "table-not-found"))
                    /\ UNCHANGED << http, tableId, responseData >>
               ELSE /\ tableId' = IdOfTable(st.table)
                    /\ responseData' = responseData
                    /\ Continue(invocation, step + 1, IdOfTable(st.table),
                                responseData)
          ELSE /\ tableId' = tableId
               /\ responseData' = data
               /\ Continue(invocation, step + 1, tableId, data)
    /\ UNCHANGED << invocation, base, serverVars >>

\* Tables are created and dropped in the base by its other users.
BackendChanges(list) ==
    /\ list # base
    /\ base' = list
    /\ UNCHANGED << invocation, step, http, tableId, reply, responseData,
                    serverVars >>

\* A tools/list request: the legacy handler returns ALL_TOOLS.
ListTools ==
    /\ invocation = NoCall
    /\ reply = NoReply
    /\ reply' = [ NoReply EXCEPT !.kind = "tools",
                                 !.names = Range(ALL_TOOLS) ]
    /\ UNCHANGED << invocation, step, http, tableId, responseData, base,
                    serverVars >>

\* The reply is handed to the protocol; the next request can be handled.
ReplySent ==
    /\ reply # NoReply
    /\ invocation' = NoCall
    /\ step' = 0
    /\ http' = << >>
    /\ tableId' = NoTable
    /\ reply' = NoReply
    /\ responseData' = "none"
    /\ UNCHANGED << base, serverVars >>

ToolNext ==
    \/ \E variant \in { "legacy", "modular" },
          name \in SwitchCases \cup RegisteredTools \cup UnregisteredNames :
          \E args \in (IF variant = "legacy" THEN LegacyArgs(name)
                       ELSE ModularArgs(name)) :
             CallTool(variant, name, args)
    \/ \E outcome \in { "ok", "http-error" }, data \in ResponseBodies :
          BackendResponds(outcome, data)
    \/ \E list \in TableLists : BackendChanges(list)
    \/ ListTools
    \/ ReplySent

ToolSpec == Init /\ [][ToolNext]_vars

\* ---- properties --------------------------------------------------------
\* A session is live from its stream-open until its 'close' event.
Live(c) == phase[c] # "idle" /\ ~closed[c]

Opens(c) == phase[c] = "idle" /\ phase'[c] # "idle"

\* C1: no two live sessions have the same id, and the id a stream-open
\* assigns is neither a key of the registry nor the id of a live session
\* at that moment, so the open overwrites no live entry.
C1_UniqueLiveIds ==
    /\ [](\A c, d \in Conn :
            (c # d /\ Live(c) /\ Live(d)) => sid[c] # sid[d])
    /\ [][\A c \in Conn : Opens(c) =>
            /\ sid'[c] \notin DOMAIN transports
            /\ \A d \in Conn : Live(d) => sid[d] # sid'[c]
            /\ \A k \in DOMAIN transports : transports'[k] = transports[k]
         ]_vars

C1_Witness ==
    \E c, d \in Conn : c # d /\ Live(c) /\ Live(d)

\* C2 (as claimed): a POST whose sessionId is not the id of a registered
\* session is answered 400 and is not delegated to a transport.
C2_UnknownIdIs400 ==
    (postRes.kind = "resp" /\ ~postRes.found)
        => (postRes.status = 400 /\ ~postRes.delegated)

\* C3: a POST rejected for an unknown or closed session id changes neither
\* the registry nor any timer, stream or response state, and starts no
\* backend call.
C3_RejectNoSideEffects ==
    [][(postRes.kind = "none" /\ postRes'.kind = "resp" /\ ~postRes'.found)
         => UNCHANGED << transports, phase, sid, timer, closed,
                         writableEnded, sseResponse, stream, pending,
                         uncaught >>
      ]_vars

C3_Witness ==
    /\ postRes.kind = "resp"
    /\ ~postRes.found
    /\ \E c \in Conn : closed[c] /\ postRes.key = sid[c]
    /\ \E d \in Conn : Live(d) /\ timer[d] /\ pending[d] > 0

\* C4: the registry holds exactly the ids of the live sessions: an id is a
\* key, bound to its own connection, from the stream-open until the
\* 'close' event, and is no key in any state after that event.
C4_RegisteredWhileOpen ==
    /\ \A c \in Conn :
         /\ phase[c] = "idle" => sid[c] = NoSessionId
         /\ Live(c) => (sid[c] \in DOMAIN transports
                          /\ transports[sid[c]] = c)
         /\ closed[c] => sid[c] \notin DOMAIN transports
    /\ DOMAIN transports = { sid[c] : c \in { d \in Conn : Live(d) } }

C4_Witness ==
    \E c, d \in Conn :
        /\ closed[c] /\ phase[c] = "connected"
        /\ Live(d) /\ phase[d] = "failed"

\* C5: a session that is closed, or whose response the server ended, has
\* no keep-alive timer scheduled.
C5_TimerCancelledOnClose ==
    \A c \in Conn : (closed[c] \/ writableEnded[c]) => ~timer[c]

C5_Witness ==
    \E c, d \in Conn :
        /\ closed[c] /\ ~writableEnded[c]
        /\ \E i \in DOMAIN stream[c] : stream[c][i] = "keep-alive"
        /\ closed[d] /\ writableEnded[d]

\* C6: running the close handler of a closed session once more changes
\* neither the registry nor any timer.
C6_CloseIdempotent ==
    \A c \in Conn :
        closed[c] =>
            CloseHandler(c, transports, timer)
                = [transports |-> transports, timer |-> timer]

C6_Witness ==
    \E c, d \in Conn :
        closed[c] /\ Live(d) /\ timer[d] /\ sid[d] \in DOMAIN transports

C8_EmitAfterCloseIsNoOp ==
    /\ [](~uncaught)
    /\ [][\A c \in Conn :
            (closed[c] /\ pending'[c] < pending[c])
                => (stream' = stream /\ ~uncaught')
         ]_vars

C8_Witness ==
    \E c \in Conn : closed[c] /\ pending[c] > 0 /\ ~uncaught

\* C9 (as claimed): a POST is delegated to a transport only when the MCP
\* server has finished connecting to it.
C9_RoutedOnlyWhenConnected ==
    (postRes.kind = "resp" /\ postRes.delegated)
        => postRes.phase = "connected"

\* C10: a failed connect, a throwing handlePostMessage and the close of a
\* session whose write failed leave every other session's registry entry,
\* timer, stream and response as they were, and the process alive.
SessionUnchanged(d) ==
    /\ phase'[d] = phase[d]
    /\ sid'[d] = sid[d]
    /\ timer'[d] = timer[d]
    /\ closed'[d] = closed[d]
    /\ writableEnded'[d] = writableEnded[d]
    /\ sseResponse'[d] = sseResponse[d]
    /\ stream'[d] = stream[d]
    /\ (sid[d] \in DOMAIN transports') = (sid[d] \in DOMAIN transports)
    /\ sid[d] \in DOMAIN transports => transports'[sid[d]] = transports[sid[d]]

FailureOf(c) ==
    \/ phase[c] = "rejecting" /\ phase'[c] = "failed"
    \/ postRes.kind = "none" /\ postRes'.kind = "resp"
         /\ postRes'.threw /\ postRes'.conn = {c}
    \/ ~closed[c] /\ closed'[c]

C10_FailureIsIsolated ==
    [][\A c \in Conn :
          FailureOf(c) =>
              /\ ~uncaught'
              /\ \A d \in Conn \ {c} : SessionUnchanged(d)
      ]_vars

C10_Witness ==
    \E c, d \in Conn :
        /\ phase[c] = "failed" /\ ~closed[c]
        /\ Live(d) /\ phase[d] = "connected" /\ timer[d]
        /\ postRes.kind = "resp" /\ postRes.threw /\ postRes.conn = {c}

\* C11: a session one of whose writes failed, whether the frame was a
\* keep-alive or a result, is eventually out of the registry with its
\* keep-alive timer cancelled.
C11_FailedWriteTearsDown ==
    \A c \in Conn :
        (c \in writeFailed)
            ~> (sid[c] \notin DOMAIN transports /\ ~timer[c])

C11_Witness ==
    \E c, d \in Conn :
        /\ c \in writeFailed /\ d \in writeFailed
        /\ stream[c][Len(stream[c])] = "keep-alive"
        /\ stream[d][Len(stream[d])] = "message"
        /\ closed[c] /\ closed[d]
        /\ DOMAIN transports = {}
        /\ ~timer[c] /\ ~timer[d]

\* C12 (as claimed): the first frame on the stream of every session is the
\* frame that announces its session id, so no keep-alive or result frame
\* stands before it, and the server ends the response of a session only
\* when its connect failed.
C12_IdFrameFirst ==
    \A c \in Conn :
        /\ stream[c] # << >> => stream[c][1] = "endpoint"
        /\ writableEnded[c] => phase[c] = "failed"

C14_SessionsIndependent ==
    [][\A c \in Conn : \A d \in Conn \ {c} :
          /\ (pending' = pending /\ stream'[c] # stream[c])
                => stream'[d] = stream[d]
          /\ ((~closed[c] /\ closed'[c])
                 \/ (phase[c] = "rejecting" /\ phase'[c] = "failed"))
                => /\ timer'[d] = timer[d]
                   /\ (sid[d] \in DOMAIN transports)
                        = (sid[d] \in DOMAIN transports')
                   /\ sid[d] \in DOMAIN transports
                        => transports'[sid[d]] = transports[sid[d]]
      ]_vars

C14_Witness ==
    \E c, d \in Conn :
        /\ c # d
        /\ phase[c] = "connecting" /\ phase[d] = "connecting"
        /\ closed[c] /\ Live(d) /\ timer[d]
        /\ sid[d] \in DOMAIN transports
        /\ \E i \in DOMAIN stream[c] : stream[c][i] = "keep-alive"
        /\ \E i \in DOMAIN stream[d] : stream[d][i] = "keep-alive"

\* ---- properties of tool calls ------------------------------------------
Finished == invocation.variant # "none" /\ reply.kind # "none"

FailureCauses ==
    { "table-not-found", "backend-http", "invalid-params",
      "file-unreadable", "unknown-tool" }

IsLookupRequest(r) ==
    r = Request("GET", "meta/bases/tables", NoTable, NoQuery, NoBody)

C17_TableNotFound ==
    [][(/\ step > 0
        /\ PlanOf(invocation)[step].op = "lookup"
        /\ PlanOf(invocation)[step].table \notin base
        /\ reply' # reply \/ step' # step)
        => /\ step' = 0
           /\ http' = http
           /\ \A i \in DOMAIN http : IsLookupRequest(http[i])
           /\ reply'.kind = "result" /\ reply'.isError
           /\ reply'.text.about \in { "table-not-found", "backend-http" }
           /\ reply'.text.subject = PlanOf(invocation)[step].table
      ]_vars

C17_Witness ==
    /\ Finished
    /\ invocation.variant = "modular"
    /\ invocation.name = "nocodb-get-records"
    /\ invocation.args.tableName = "customers"
    /\ "Customers" \in base
    /\ reply.isError /\ reply.text.about = "table-not-found"
    /\ Len(http) = 1

\* The arguments of the call fail the parameter contract of its tool.
ContractViolated(call) ==
    \/ ~call.args.isObject
    \/ /\ call.name \in { GET_RECORDS_TOOL, POST_RECORDS_TOOL,
                           PATCH_RECORDS_TOOL, DELETE_RECORDS_TOOL,
                           GET_TABLE_METADATA_TOOL, ADD_COLUMN_TOOL }
       /\ call.args.tableName = Undefined
    \/ call.name = PATCH_RECORDS_TOOL /\ ~EveryHasId(call.args.data)
    \/ call.name = DELETE_RECORDS_TOOL
          /\ ~EveryHasNumericId(call.args.data)
    \/ call.name = REMOVE_COLUMN_TOOL
          /\ ~ValidColumnId(call.args.columnId)
    \/ /\ call.name = "nocodb-alter-table-add-column"
       /\ call.args.columnType = "LinkToAnotherRecord"
       /\ \/ call.args.parentTableName = Undefined
          \/ call.args.relationType = Undefined

\* C18 (as claimed): a call whose arguments fail the contract of its tool
\* sends no request to the backend, not even the name lookup, and ends as
\* an invalid-parameters error.
C18_InvalidParamsNoRequest ==
    (invocation.variant # "none"
        /\ invocation.name \in SwitchCases \cup RegisteredTools
        /\ ContractViolated(invocation))
        => /\ http = << >>
           /\ Finished => (reply.isError
                            /\ reply.text.about = "invalid-params")

\* C19 (as claimed): a call of a name the legacy server has no tool for
\* ends as an unknown-tool error payload that names the tool, and sends
\* no request to the backend.
C19_UnknownToolIsErrorPayload ==
    (Finished /\ invocation.variant = "legacy"
        /\ invocation.name \notin Range(ALL_TOOLS))
        => /\ reply.kind = "result" /\ reply.isError
           /\ reply.code = "MethodNotFound"
           /\ reply.text.about = "unknown-tool"
           /\ reply.text.subject = invocation.name
           /\ http = << >>

\* C20: the names a tool-list request returns are exactly the names the
\* tool-call handler has a case for, whatever was handled before: a call
\* with object arguments ends as unknown-tool exactly when its name is not
\* listed.
C20_ListedIsDispatchable ==
    /\ reply.kind = "tools" => reply.names = SwitchCases
    /\ (Finished /\ invocation.variant = "legacy"
          /\ invocation.args.isObject)
         => ((reply.text.about = "unknown-tool")
               <=> (invocation.name \notin Range(ALL_TOOLS)))

C20_Witness ==
    /\ reply.kind = "tools"
    /\ Cardinality(reply.names) = Len(ALL_TOOLS)
    /\ base # {}

\* The call went through a function that resolves a table name.
TakesTableName(call) ==
    \E i \in DOMAIN PlanOf(call) : PlanOf(call)[i].op = "lookup"

\* C21 (as claimed): a call of an operation that takes a table name and
\* succeeds has sent exactly two requests: the name lookup, then the one
\* request of the operation, addressed to the id the lookup resolved.
C21_OneLookupThenOneCall ==
    (Finished /\ reply.kind = "result" /\ ~reply.isError
        /\ TakesTableName(invocation))
        => /\ Len(http) = 2
           /\ IsLookupRequest(http[1])
           /\ ~IsLookupRequest(http[2])
           /\ http[2].table = IdOfTable(invocation.args.tableName)

\* C22 (as claimed): an error answer of the backend ends the call with no
\* further request (no retry) and reaches the caller as an error whose
\* message names the operation that failed, for every operation.
C22_BackendFailureWrapped ==
    /\ []((Finished /\ reply.text.about = "backend-http")
            => /\ reply.isError
               /\ reply.text.wrapper \notin { "raw", "" })
    /\ [][(reply'.text.about = "backend-http" /\ reply' # reply)
            => (step' = 0 /\ http' = http)]_vars

Succeeded == Finished /\ reply.kind = "result" /\ ~reply.isError

\* The parameters the caller submitted to a record tool of nocodbApi.
Submitted(call) ==
    LET a == call.args
    IN CASE call.name = "nocodb-get-records" ->
              [ NoInput EXCEPT !.tableName = a.tableName,
                  !.filters = a.filters, !.limit = a.limit,
                  !.offset = a.offset, !.sort = a.sort,
                  !.fields = a.fields ]
         [] call.name = "nocodb-post-records" ->
              [ NoInput EXCEPT !.tableName = a.tableName, !.data = a.data ]
         [] call.name = "nocodb-patch-records" ->
              [ NoInput EXCEPT !.tableName = a.tableName,
                  !.rowId = Some(a.rowId), !.data = a.data ]
         [] OTHER -> NoInput

\* C23 (as claimed): when the payload of a successful call has an `input`
\* member, that member equals the parameters the caller submitted, and its
\* `output` member is the body the backend answered with, unmodified.
C23_InputEchoesParameters ==
    (Succeeded /\ reply.payload.hasInput)
        => /\ reply.payload.input = Submitted(invocation)
           /\ reply.payload.shape = "raw"
           /\ reply.payload.output = responseData

\* C24 (as claimed): the column list create-table sends is the column
\* {title 'Id', uidt 'ID'} followed by the given columns when no given
\* column is titled id in any letter case, and exactly the given list
\* otherwise.
C24_IdColumnAdded ==
    (invocation.variant # "none"
        /\ invocation.name \in { "nocodb-create-table", CREATE_TABLE_TOOL }
        /\ http # << >>)
        => LET given == invocation.args.columns
               sent == http[1].body.columns
           IN IF \A i \in DOMAIN given : ToLowerCase(given[i].title) # "id"
              THEN sent = << Column("Id", "ID") >> \o given
              ELSE sent = given

\* The query that holds each optional parameter the caller supplied, and
\* no other.
SuppliedQuery(a) ==
    When(a.filters # None, Param("where", a.filters[1]))
      \o When(a.limit # None, Param("limit", ToString(a.limit[1])))
      \o When(a.offset # None, Param("offset", ToString(a.offset[1])))
      \o When(a.sort # None, Param("sort", a.sort[1]))
      \o When(a.fields # None, Param("fields", a.fields[1]))

\* C29 (as claimed): the records request of get-records carries where,
\* limit, offset, sort and fields, in that order, each if and only if the
\* caller supplied the parameter, whatever its value, and no query when
\* none was supplied.
C29_QueryFromSuppliedParams ==
    (invocation.variant # "none"
        /\ invocation.name \in { "nocodb-get-records", GET_RECORDS_TOOL }
        /\ Len(http) >= 2)
        => http[2].query = SuppliedQuery(invocation.args)

\* C30: the body the patch-records tool sends is one object whose `id` is
\* rowId, whatever `id` the caller's data held, and whose other keys are
\* those of the caller's data with their values; the data the caller
\* submitted stays as it was while the call runs.
C30_PatchTargetsRowId ==
    /\ []((invocation.variant = "modular"
             /\ invocation.name = "nocodb-patch-records"
             /\ Len(http) >= 2)
            => LET d == invocation.args.data.items[1]
                   b == http[2].body.data
               IN /\ http[2].method = "PATCH"
                  /\ ~b.isArray /\ Len(b.items) = 1
                  /\ b.items[1].isObject
                  /\ b.items[1].id = Some(invocation.args.rowId)
                  /\ b.items[1].name = (IF d.isObject THEN d.name ELSE None)
                  /\ b.items[1].hasId = d.hasId)
    /\ [][(invocation.name = "nocodb-patch-records"
             /\ invocation'.name = "nocodb-patch-records")
            => invocation'.args = invocation.args]_vars

C30_Witness ==
    /\ Succeeded
    /\ invocation.name = "nocodb-patch-records"
    /\ invocation.args.rowId = 2
    /\ invocation.args.data.items[1].id = Some(7)
    /\ invocation.args.data.items[1].name = Some(7)
    /\ http[2].body.data.items[1].id = Some(2)
    /\ reply.payload.input.data = http[2].body.data

C26_FailedSessionNotRoutable ==
    /\ \A c \in Conn : phase[c] = "failed" => (~timer[c] /\ writableEnded[c])
    /\ (postRes.kind = "resp" /\ postRes.delegated)
          => \A c \in postRes.conn : phase[c] # "failed"

\* C27: the response of every POST /messages the handler has dealt with
\* had its headers sent once and was ended once, whether the session id
\* was unknown, the transport answered, or the transport threw before or
\* after the headers were sent.
C27_OneResponsePerPost ==
    postRes.kind = "resp" => (postRes.sends = 1 /\ postRes.ends = 1)

C27_Witness ==
    /\ postRes.kind = "resp"
    /\ postRes.delegated /\ postRes.threw
    /\ postRes.status = 200 /\ postRes.body = "none"
    /\ postRes.sends = 1 /\ postRes.ends = 1
    /\ postRes.phase = "connected"

\* C28: every keep-alive timer that is scheduled belongs to a session
\* whose id is a key of the registry, bound to that session's own
\* transport: no timer is scheduled before its session is registered and
\* none stays scheduled once its session was removed.
C28_TimerOnlyWhileRegistered ==
    \A c \in Conn :
        timer[c] => /\ sid[c] # NoSessionId
                    /\ sid[c] \in DOMAIN transports
                    /\ transports[sid[c]] = c

C28_Witness ==
    \E c, d \in Conn :
        /\ timer[c] /\ phase[c] = "rejecting"
        /\ sid[c] \in DOMAIN transports
        /\ closed[d] /\ ~timer[d] /\ sid[d] \notin DOMAIN transports
        /\ \E i \in DOMAIN stream[d] : stream[d][i] = "keep-alive"

====
